---- MODULE Spec2Model ----
(***************************************************************************)
(* Model of the checkpoint registry, src/checkpoints/checkpoints.cpp.      *)
(*                                                                         *)
(* The registry is the std::map m_points (height -> hash).  Every public   *)
(* member function of class checkpoints is one action; the action records  *)
(* the call (operation, arguments, locals), the value returned and the     *)
(* registry as it was before the call, so that properties of a call can be *)
(* stated over the state it leaves.                                        *)
(*                                                                         *)
(* A hash string is a sequence of characters; crypto::hash is the sequence *)
(* of hex digits hex_to_pod decodes.  The model shortens the 64-digit      *)
(* string to HashHexLen digits: the strings of the built-in table are cut  *)
(* to their first HashHexLen digits.                                       *)
(***************************************************************************)
EXTENDS Integers, Sequences, FiniteSets, TLC

(* ------------------------------ bounds --------------------------------- *)
\* heights offered as arguments and in file records are 0..MaxHeight
MaxHeight == 3
\* number of hex digits of a well-formed hash string (64 in the program)
HashHexLen == 1
\* greatest number of hashlines in a checkpoint file
MaxRecords == 3
\* greatest number of TXT records a lookup gives
MaxDnsRecords == 2

Heights == 0..MaxHeight

\* the heights the queries are asked about: the small ones and those around
\* the second row of the built-in table
QueryHeights == Heights \cup {2499, 2500, 2501}

(* ------------------------------ hashes --------------------------------- *)
HexDigits ==
  {"0", "1", "2", "3", "4", "5", "6", "7", "8", "9", "a", "b", "c", "d", "e", "f"}

\* the well-formed argument strings: two different hashes
WellFormedStrs == {[i \in 1..HashHexLen |-> "4"], [i \in 1..HashHexLen |-> "6"]}

\* one digit short, one digit long, and a non-hex character in the last place
MalformedStrs ==
  {SubSeq(s, 1, HashHexLen - 1) : s \in WellFormedStrs}
    \cup {Append(s, "4") : s \in WellFormedStrs}
    \cup {[s EXCEPT ![HashHexLen] = "g"] : s \in WellFormedStrs}

HashStrs == WellFormedStrs \cup MalformedStrs

\* the strings offered in file records: two well-formed, one malformed
FileStrs ==
  WellFormedStrs \cup {[i \in 1..HashHexLen |-> IF i = HashHexLen THEN "g" ELSE "4"]}

\* epee::string_tools::hex_to_pod: r is the success flag, h the decoded hash
hex_to_pod(hash_str) ==
  IF Len(hash_str) = HashHexLen /\ \A i \in 1..Len(hash_str) : hash_str[i] \in HexDigits
    THEN [r |-> TRUE, h |-> hash_str]
    ELSE [r |-> FALSE, h |-> <<>>]

\* the values of crypto::hash offered as arguments of check_block
Hashes == {hex_to_pod(s).h : s \in WellFormedStrs}

(* ----------------------------- std::map -------------------------------- *)
\* m_points[k] = v
Put(points, k, v) == (k :> v) @@ points

RECURSIVE SetToSeq(_)
SetToSeq(S) ==
  IF S = {} THEN <<>>
  ELSE LET x == CHOOSE y \in S : TRUE
       IN  <<x>> \o SetToSeq(S \ {x})

\* the keys in iteration order (ascending)
Keys(points) == SortSeq(SetToSeq(DOMAIN points), LAMBDA a, b : a < b)

\* std::map::upper_bound: position of the first key greater than x,
\* Len + 1 is end()
RECURSIVE upper_bound_from(_, _, _)
upper_bound_from(keys, x, i) ==
  IF i > Len(keys) THEN i
  ELSE IF keys[i] > x THEN i
  ELSE upper_bound_from(keys, x, i + 1)

upper_bound(points, x) == upper_bound_from(Keys(points), x, 1)

(* --------------------------- checkpoints ------------------------------- *)
\* add_checkpoint without the check of the hash already stored
add_checkpoint_overwrites(points, height, hash_str) ==
  LET d == hex_to_pod(hash_str)
  IN  IF ~d.r THEN [ret |-> FALSE, points |-> points]
      ELSE [ret |-> TRUE, points |-> Put(points, height, d.h)]

\* add_checkpoint dropping the entry it finds in conflict
add_checkpoint_erases(points, height, hash_str) ==
  LET d == hex_to_pod(hash_str)
  IN  IF ~d.r THEN [ret |-> FALSE, points |-> points]
      ELSE IF height \in DOMAIN points /\ d.h # points[height]
        THEN [ret |-> FALSE,
              points |-> [k \in (DOMAIN points) \ {height} |-> points[k]]]
      ELSE [ret |-> TRUE, points |-> Put(points, height, d.h)]

\* add_checkpoint refusing every height it already has
add_checkpoint_refuses_known(points, height, hash_str) ==
  LET d == hex_to_pod(hash_str)
  IN  IF ~d.r THEN [ret |-> FALSE, points |-> points]
      ELSE IF height \in DOMAIN points
        THEN [ret |-> FALSE, points |-> points]
      ELSE [ret |-> TRUE, points |-> Put(points, height, d.h)]

\* add_checkpoint storing the hash before it looks at the decoding result
add_checkpoint_writes_first(points, height, hash_str) ==
  LET d == hex_to_pod(hash_str)
  IN  IF ~d.r THEN [ret |-> FALSE, points |-> Put(points, height, d.h)]
      ELSE IF height \in DOMAIN points /\ d.h # points[height]
        THEN [ret |-> FALSE, points |-> points]
      ELSE [ret |-> TRUE, points |-> Put(points, height, d.h)]

add_checkpoint(points, height, hash_str) ==
  LET d == hex_to_pod(hash_str)
  IN  IF ~d.r THEN [ret |-> FALSE, points |-> points]
      ELSE IF height \in DOMAIN points /\ d.h # points[height]
        THEN [ret |-> FALSE, points |-> points]
      ELSE [ret |-> TRUE, points |-> Put(points, height, d.h)]

\* is_in_checkpoint_zone with < for <=
is_in_checkpoint_zone_strict(points, height) ==
  LET keys == Keys(points)
  IN  Len(keys) # 0 /\ height < keys[Len(keys)]

is_in_checkpoint_zone(points, height) ==
  LET keys == Keys(points)
  IN  Len(keys) # 0 /\ height <= keys[Len(keys)]

\* check_block passing a block whose hash differs from the checkpoint's
check_block_lenient(points, height, h) ==
  LET is_a_checkpoint == height \in DOMAIN points
  IN  IF ~is_a_checkpoint THEN [ret |-> TRUE, is_a_checkpoint |-> FALSE]
      ELSE [ret |-> TRUE, is_a_checkpoint |-> TRUE]

check_block(points, height, h) ==
  LET is_a_checkpoint == height \in DOMAIN points
  IN  IF ~is_a_checkpoint THEN [ret |-> TRUE, is_a_checkpoint |-> FALSE]
      ELSE IF points[height] = h THEN [ret |-> TRUE, is_a_checkpoint |-> TRUE]
      ELSE [ret |-> FALSE, is_a_checkpoint |-> TRUE]

check_block_2(points, height, h) == check_block(points, height, h).ret

\* is_alternative_block_allowed comparing with the first checkpoint instead
\* of the last one at or below blockchain_height
is_alternative_block_allowed_first(points, blockchain_height, block_height) ==
  IF 0 = block_height THEN FALSE
  ELSE LET keys == Keys(points)
           it == upper_bound(points, blockchain_height)
       IN  IF it = 1 THEN TRUE
           ELSE keys[1] < block_height

\* is_alternative_block_allowed with <= for <
is_alternative_block_allowed_at(points, blockchain_height, block_height) ==
  IF 0 = block_height THEN FALSE
  ELSE LET keys == Keys(points)
           it == upper_bound(points, blockchain_height)
       IN  IF it = 1 THEN TRUE
           ELSE keys[it - 1] <= block_height

is_alternative_block_allowed(points, blockchain_height, block_height) ==
  IF 0 = block_height THEN FALSE
  ELSE LET keys == Keys(points)
           it == upper_bound(points, blockchain_height)
       IN  IF it = 1 THEN TRUE
           ELSE keys[it - 1] < block_height

\* std::max_element over the keys: the first greatest element
RECURSIVE max_element_from(_, _, _)
max_element_from(keys, best, i) ==
  IF i > Len(keys) THEN best
  ELSE IF keys[best] < keys[i] THEN max_element_from(keys, i, i + 1)
  ELSE max_element_from(keys, best, i + 1)

\* get_max_height dereferences the iterator max_element returns; on an empty
\* map that iterator is end() and the read is undefined: any value may come
\* back.  The set of values the call can return.
get_max_height(points) ==
  LET keys == Keys(points)
  IN  IF Len(keys) = 0 THEN Heights
      ELSE {keys[max_element_from(keys, 1, 2)]}

get_points(points) == points

\* check_for_conflicts stopping at the first height of other that this
\* registry does not have
RECURSIVE check_for_conflicts_from_stops(_, _, _, _)
check_for_conflicts_from_stops(points, other, keys, i) ==
  IF i > Len(keys) THEN TRUE
  ELSE IF keys[i] \notin DOMAIN points THEN TRUE
  ELSE IF other[keys[i]] # points[keys[i]] THEN FALSE
  ELSE check_for_conflicts_from_stops(points, other, keys, i + 1)

RECURSIVE check_for_conflicts_from(_, _, _, _)
check_for_conflicts_from(points, other, keys, i) ==
  IF i > Len(keys) THEN TRUE
  ELSE IF keys[i] \in DOMAIN points /\ other[keys[i]] # points[keys[i]] THEN FALSE
  ELSE check_for_conflicts_from(points, other, keys, i + 1)

check_for_conflicts(points, other) ==
  check_for_conflicts_from(points, other, Keys(other), 1)

\* the macro ADD_CHECKPOINT(h, hash) of checkpoints.h: TRUE when the macro
\* leaves the enclosing function (returning false) on the result ok of
\* add_checkpoint.  An accepted record lets the caller go on; a rejected
\* record is logged and the caller goes on with the next one.
\* the macro returning false from the enclosing function on a rejected record
ADD_CHECKPOINT_returns_on_failure(ok) == IF ok THEN FALSE ELSE TRUE

ADD_CHECKPOINT_returns(ok) == IF ok THEN FALSE ELSE FALSE

TestTable == << <<0, <<"6", "0", "0", "7">>>> >>

StageTable == << <<0, <<"6", "0", "0", "7">>>> >>

MainTable ==
  <<
     <<0, <<"4", "c", "f", "a">>>>,
     <<2500, <<"a", "c", "7", "a">>>>,
     <<5000, <<"8", "b", "a", "a">>>>,
     <<7500, <<"1", "8", "1", "2">>>>,
     <<10000, <<"6", "5", "5", "0">>>>,
     <<12500, <<"f", "2", "8", "5">>>>,
     <<15000, <<"4", "b", "8", "9">>>>,
     <<17500, <<"f", "a", "7", "8">>>>,
     <<20000, <<"f", "c", "c", "e">>>>,
     <<22500, <<"6", "b", "b", "1">>>>,
     <<25000, <<"4", "4", "b", "8">>>>,
     <<27500, <<"d", "3", "1", "5">>>>,
     <<30000, <<"3", "7", "9", "f">>>>,
     <<32500, <<"4", "c", "f", "f">>>>,
     <<35000, <<"2", "0", "9", "7">>>>,
     <<37500, <<"6", "4", "0", "a">>>>,
     <<40000, <<"8", "e", "a", "d">>>>,
     <<42500, <<"f", "1", "9", "5">>>>,
     <<45000, <<"4", "2", "3", "0">>>>,
     <<47500, <<"5", "d", "9", "a">>>>,
     <<50000, <<"7", "8", "c", "4">>>>,
     <<52500, <<"f", "b", "7", "6">>>>,
     <<55000, <<"2", "d", "8", "d">>>>,
     <<57500, <<"0", "f", "e", "3">>>>,
     <<60000, <<"c", "3", "7", "b">>>>,
     <<62500, <<"1", "a", "6", "c">>>>,
     <<65000, <<"4", "5", "f", "a">>>>,
     <<67500, <<"3", "7", "0", "b">>>>,
     <<70000, <<"3", "e", "8", "9">>>>,
     <<72500, <<"7", "7", "2", "7">>>>,
     <<75000, <<"a", "4", "e", "6">>>>,
     <<77500, <<"9", "2", "a", "f">>>>,
     <<80000, <<"2", "7", "c", "3">>>>,
     <<82500, <<"5", "d", "2", "3">>>>,
     <<85000, <<"a", "a", "3", "2">>>>,
     <<87500, <<"b", "2", "7", "c">>>>,
     <<90000, <<"c", "c", "7", "8">>>>,
     <<92500, <<"5", "9", "5", "f">>>>,
     <<95000, <<"e", "4", "a", "d">>>>,
     <<97500, <<"6", "e", "2", "e">>>>,
     <<100000, <<"5", "b", "7", "7">>>>,
     <<102500, <<"3", "5", "a", "c">>>>,
     <<105000, <<"c", "9", "0", "0">>>>,
     <<107500, <<"2", "c", "6", "b">>>>,
     <<110000, <<"d", "3", "0", "e">>>>,
     <<112500, <<"e", "0", "5", "9">>>>,
     <<115000, <<"7", "c", "c", "c">>>>,
     <<117500, <<"8", "8", "4", "1">>>>,
     <<120000, <<"2", "d", "2", "b">>>>,
     <<122500, <<"8", "4", "e", "c">>>>,
     <<125000, <<"5", "1", "9", "7">>>>,
     <<127500, <<"5", "b", "0", "1">>>>,
     <<130000, <<"f", "8", "6", "6">>>>,
     <<132500, <<"2", "c", "d", "d">>>>,
     <<135000, <<"7", "f", "a", "e">>>>,
     <<137500, <<"a", "3", "a", "2">>>>,
     <<140000, <<"e", "2", "6", "e">>>>,
     <<142500, <<"7", "5", "c", "3">>>>,
     <<145000, <<"4", "5", "8", "2">>>>,
     <<147500, <<"5", "3", "a", "6">>>>,
     <<150000, <<"7", "1", "8", "d">>>>,
     <<152500, <<"c", "1", "3", "d">>>>,
     <<155000, <<"7", "3", "1", "d">>>>,
     <<157500, <<"e", "8", "2", "9">>>>,
     <<160000, <<"d", "c", "3", "c">>>>,
     <<162500, <<"1", "b", "3", "1">>>>,
     <<165000, <<"4", "3", "4", "3">>>>,
     <<167500, <<"7", "a", "9", "3">>>>,
     <<170000, <<"d", "8", "3", "e">>>>,
     <<172500, <<"c", "9", "5", "a">>>>,
     <<175000, <<"e", "3", "e", "c">>>>,
     <<177500, <<"0", "a", "c", "1">>>>,
     <<180000, <<"1", "6", "8", "5">>>>,
     <<182500, <<"f", "9", "9", "c">>>>,
     <<185000, <<"6", "a", "8", "7">>>>,
     <<187500, <<"9", "e", "4", "3">>>>,
     <<190000, <<"a", "c", "0", "c">>>>,
     <<192500, <<"3", "a", "1", "7">>>>,
     <<195000, <<"c", "1", "b", "5">>>>,
     <<197500, <<"f", "8", "4", "9">>>>,
     <<200000, <<"b", "f", "c", "e">>>>,
     <<202500, <<"4", "d", "c", "3">>>>,
     <<205000, <<"d", "8", "d", "5">>>>,
     <<207500, <<"4", "3", "4", "0">>>>,
     <<210000, <<"5", "9", "0", "1">>>>,
     <<212500, <<"7", "a", "9", "6">>>>,
     <<215000, <<"6", "b", "6", "9">>>>,
     <<217500, <<"c", "c", "5", "9">>>>,
     <<220000, <<"3", "b", "7", "e">>>>,
     <<222500, <<"4", "5", "0", "3">>>>,
     <<225000, <<"5", "5", "8", "e">>>>,
     <<227500, <<"d", "a", "f", "c">>>>,
     <<230000, <<"0", "7", "1", "8">>>>,
     <<232500, <<"8", "0", "9", "2">>>>
  >>

NetworkTypes == {"MAINNET", "TESTNET", "STAGENET"}

\* a table row as the arguments of ADD_CHECKPOINT
RowHeight(row) == row[1]

RowHash(row) == SubSeq(row[2], 1, HashHexLen)

RECURSIVE add_rows(_, _, _)
add_rows(points, rows, i) ==
  IF i > Len(rows) THEN [ret |-> TRUE, points |-> points]
  ELSE LET a == add_checkpoint(points, RowHeight(rows[i]), RowHash(rows[i]))
       IN  IF ADD_CHECKPOINT_returns(a.ret) THEN [ret |-> FALSE, points |-> a.points]
           ELSE add_rows(a.points, rows, i + 1)

\* init_default_checkpoints without the return of the TESTNET branch: the
\* main table is added after the test one
init_default_checkpoints_falls_through(points, nettype) ==
  IF nettype = "TESTNET"
    THEN add_rows(add_rows(points, TestTable, 1).points, MainTable, 1)
  ELSE IF nettype = "STAGENET" THEN add_rows(points, StageTable, 1)
  ELSE add_rows(points, MainTable, 1)

init_default_checkpoints(points, nettype) ==
  IF nettype = "TESTNET" THEN add_rows(points, TestTable, 1)
  ELSE IF nettype = "STAGENET" THEN add_rows(points, StageTable, 1)
  ELSE add_rows(points, MainTable, 1)

\* the loop comparing each record with the greatest height of the registry
\* as it is when the record is reached
RECURSIVE json_hashlines_recomputes(_, _, _, _)
json_hashlines_recomputes(points, hashlines, prev_max_height, i) ==
  IF i > Len(hashlines) THEN [ret |-> TRUE, points |-> points]
  ELSE LET height == hashlines[i].height
           keys == Keys(points)
           now_max == IF Len(keys) = 0 THEN prev_max_height ELSE keys[Len(keys)]
       IN  IF height <= now_max
             THEN json_hashlines_recomputes(points, hashlines, prev_max_height, i + 1)
           ELSE LET a == add_checkpoint(points, height, hashlines[i].hash)
                IN  IF ADD_CHECKPOINT_returns(a.ret)
                      THEN [ret |-> FALSE, points |-> a.points]
                    ELSE json_hashlines_recomputes(a.points, hashlines,
                                                   prev_max_height, i + 1)

\* the loop over hashes.hashlines
RECURSIVE json_hashlines(_, _, _, _)
json_hashlines(points, hashlines, prev_max_height, i) ==
  IF i > Len(hashlines) THEN [ret |-> TRUE, points |-> points]
  ELSE LET height == hashlines[i].height
       IN  IF height <= prev_max_height
             THEN json_hashlines(points, hashlines, prev_max_height, i + 1)
           ELSE LET a == add_checkpoint(points, height, hashlines[i].hash)
                IN  IF ADD_CHECKPOINT_returns(a.ret)
                      THEN [ret |-> FALSE, points |-> a.points]
                    ELSE json_hashlines(a.points, hashlines, prev_max_height, i + 1)

\* a checkpoint file: absent, present and unreadable as json, or a list of
\* hashlines
Hashlines == [height : Heights, hash : FileStrs]

HashlineSeqs == UNION {[1..n -> Hashlines] : n \in 0..MaxRecords}

Files ==
  {[exists |-> FALSE, loads |-> FALSE, hashlines |-> <<>>],
   [exists |-> TRUE, loads |-> FALSE, hashlines |-> <<>>]}
    \cup {[exists |-> TRUE, loads |-> TRUE, hashlines |-> s] : s \in HashlineSeqs}

\* the files offered to load_new_checkpoints are one record shorter
ShortFiles == {f \in Files : Len(f.hashlines) < MaxRecords}

\* prev_max_height is the value get_max_height returned
load_checkpoints_from_json(points, file, prev_max_height) ==
  IF ~file.exists THEN [ret |-> TRUE, points |-> points]
  ELSE IF ~file.loads THEN [ret |-> FALSE, points |-> points]
  ELSE json_hashlines(points, file.hashlines, prev_max_height, 1)

\* the decimal text of a height
DecimalDigits == <<"0", "1", "2", "3", "4", "5", "6", "7", "8", "9">>

RECURSIVE ToDecimal(_)
ToDecimal(n) ==
  IF n < 10 THEN <<DecimalDigits[n + 1]>>
  ELSE ToDecimal(n \div 10) \o <<DecimalDigits[(n % 10) + 1]>>

\* the TXT records a lookup can give: "<height>:<hash>" with a well-formed or
\* a malformed hash, a record without the colon, a record whose height is no
\* number
DnsRecords ==
  {ToDecimal(h) \o <<":">> \o str : h \in Heights, str \in FileStrs}
    \cup {ToDecimal(0) \o str : str \in WellFormedStrs}
    \cup {<<"x", ":">> \o str : str \in WellFormedStrs}

\* what tools::dns_utils::load_txt_records_from_dns would give: failure, or
\* a list of records
DnsResponses ==
  {[ok |-> FALSE, records |-> <<>>]}
    \cup {[ok |-> TRUE, records |-> r] :
            r \in UNION {[1..n -> DnsRecords] : n \in 0..MaxDnsRecords}}

\* record.find(":"): the position of the first colon, 0 for npos
RECURSIVE find_colon(_, _)
find_colon(record, i) ==
  IF i > Len(record) THEN 0
  ELSE IF record[i] = ":" THEN i
  ELSE find_colon(record, i + 1)

\* ss >> height: the number the leading decimal digits spell, r is FALSE
\* when the text does not start with a digit
RECURSIVE read_digits(_, _, _)
read_digits(text, i, acc) ==
  IF i > Len(text) THEN acc
  ELSE IF \E d \in 1..10 : DecimalDigits[d] = text[i]
    THEN read_digits(text, i + 1,
                     acc * 10 + (CHOOSE d \in 1..10 : DecimalDigits[d] = text[i]) - 1)
  ELSE acc

read_height(text) ==
  IF Len(text) > 0 /\ \E d \in 1..10 : DecimalDigits[d] = text[1]
    THEN [r |-> TRUE, height |-> read_digits(text, 1, 0)]
    ELSE [r |-> FALSE, height |-> 0]

\* load_checkpoints_from_dns returning true
load_checkpoints_from_dns_returns_true(points, nettype) ==
  [ret |-> TRUE, points |-> points]

\* the function returns at its first statement: the lookup and the loop over
\* the records below it are never reached
load_checkpoints_from_dns(points, nettype) == [ret |-> FALSE, points |-> points]

\* load_new_checkpoints leaving out the dns load when the json load failed
load_new_checkpoints_short_circuits(points, file, prev_max_height, nettype, dns) ==
  LET j == load_checkpoints_from_json(points, file, prev_max_height)
  IN  IF dns /\ j.ret
        THEN LET d == load_checkpoints_from_dns(j.points, nettype)
             IN  [ret |-> j.ret /\ d.ret, points |-> d.points,
                  ran |-> <<"json", "dns">>]
      ELSE [ret |-> j.ret, points |-> j.points, ran |-> <<"json">>]

\* load_new_checkpoints making the dns load whatever the flag
load_new_checkpoints_always_dns(points, file, prev_max_height, nettype, dns) ==
  LET j == load_checkpoints_from_json(points, file, prev_max_height)
      d == load_checkpoints_from_dns(j.points, nettype)
  IN  [ret |-> j.ret /\ d.ret, points |-> d.points, ran |-> <<"json", "dns">>]

\* load_new_checkpoints dropping the result of the dns load
load_new_checkpoints_drops_dns_result(points, file, prev_max_height, nettype, dns) ==
  LET j == load_checkpoints_from_json(points, file, prev_max_height)
  IN  IF dns
        THEN LET d == load_checkpoints_from_dns(j.points, nettype)
             IN  [ret |-> j.ret, points |-> d.points, ran |-> <<"json", "dns">>]
      ELSE [ret |-> j.ret, points |-> j.points, ran |-> <<"json">>]

\* ran lists the loads the call made, in order
load_new_checkpoints(points, file, prev_max_height, nettype, dns) ==
  LET j == load_checkpoints_from_json(points, file, prev_max_height)
  IN  IF dns
        THEN LET d == load_checkpoints_from_dns(j.points, nettype)
             IN  [ret |-> j.ret /\ d.ret, points |-> d.points,
                  ran |-> <<"json", "dns">>]
      ELSE [ret |-> j.ret, points |-> j.points, ran |-> <<"json">>]

(* ------------------------------ state ---------------------------------- *)
VARIABLES
  m_points,     \* the registry
  pre_points,   \* the registry before the last call
  call,         \* the call that has returned and whose result the caller
                \* holds (operation, arguments, locals); "none" between calls
  ret,          \* the bool that call returned (TRUE for a call that returns
                \* no bool)
  out           \* what that call gave back besides: the out-parameter
                \* is_a_checkpoint, a height, the map

vars == <<m_points, pre_points, call, ret, out>>

\* out of a call that gives back a bool only
NoOut == [is_a_checkpoint |-> FALSE, highest |-> 0, points |-> <<>>]

\* checkpoints::checkpoints()
Init ==
  /\ m_points = <<>>
  /\ pre_points = <<>>
  /\ call = [op |-> "none"]
  /\ ret = TRUE
  /\ out = NoOut

\* calls are made one after another: the caller takes the result of a call
\* before it makes the next one
Idle == call.op = "none"

Return ==
  /\ ~Idle
  /\ call' = [op |-> "none"]
  /\ ret' = TRUE
  /\ out' = NoOut
  /\ pre_points' = m_points
  /\ UNCHANGED m_points

AddCheckpoint ==
  /\ Idle
  /\ \E height \in Heights, hash_str \in HashStrs :
    LET a == add_checkpoint(m_points, height, hash_str)
    IN  /\ m_points' = a.points
        /\ pre_points' = m_points
        /\ call' = [op |-> "add_checkpoint", height |-> height, hash_str |-> hash_str]
        /\ ret' = a.ret
        /\ out' = NoOut

IsInCheckpointZone ==
  /\ Idle
  /\ \E height \in QueryHeights :
    /\ call' = [op |-> "is_in_checkpoint_zone", height |-> height]
    /\ ret' = is_in_checkpoint_zone(m_points, height)
    /\ out' = NoOut
    /\ pre_points' = m_points
    /\ UNCHANGED m_points

\* crypto::null_hash
null_hash == [i \in 1..HashHexLen |-> "0"]

\* check_block looking the height up with m_points[height], which inserts
\* the null hash at a height that is not there
CheckBlock_inserts ==
  /\ Idle
  /\ \E height \in QueryHeights, h \in Hashes :
    /\ call' = [op |-> "check_block", height |-> height, h |-> h]
    /\ ret' = check_block(m_points, height, h).ret
    /\ out' = [NoOut EXCEPT !.is_a_checkpoint =
                               check_block(m_points, height, h).is_a_checkpoint]
    /\ pre_points' = m_points
    /\ m_points' = IF height \in DOMAIN m_points THEN m_points
                   ELSE Put(m_points, height, null_hash)

CheckBlock ==
  /\ Idle
  /\ \E height \in QueryHeights, h \in Hashes :
    /\ call' = [op |-> "check_block", height |-> height, h |-> h]
    /\ ret' = check_block(m_points, height, h).ret
    /\ out' = [NoOut EXCEPT !.is_a_checkpoint =
                               check_block(m_points, height, h).is_a_checkpoint]
    /\ pre_points' = m_points
    /\ UNCHANGED m_points

CheckBlock2 ==
  /\ Idle
  /\ \E height \in QueryHeights, h \in Hashes :
    /\ call' = [op |-> "check_block_2", height |-> height, h |-> h]
    /\ ret' = check_block_2(m_points, height, h)
    /\ out' = NoOut
    /\ pre_points' = m_points
    /\ UNCHANGED m_points

IsAlternativeBlockAllowed ==
  /\ Idle
  /\ \E blockchain_height \in QueryHeights, block_height \in QueryHeights :
    /\ call' = [op |-> "is_alternative_block_allowed",
                blockchain_height |-> blockchain_height,
                block_height |-> block_height]
    /\ ret' = is_alternative_block_allowed(m_points, blockchain_height, block_height)
    /\ out' = NoOut
    /\ pre_points' = m_points
    /\ UNCHANGED m_points

GetMaxHeight ==
  /\ Idle
  /\ \E highest \in get_max_height(m_points) :
    /\ call' = [op |-> "get_max_height", empty |-> (DOMAIN m_points = {})]
    /\ ret' = TRUE
    /\ out' = [NoOut EXCEPT !.highest = highest]
    /\ pre_points' = m_points
    /\ UNCHANGED m_points

GetPoints ==
  /\ Idle
  /\ call' = [op |-> "get_points"]
  /\ ret' = TRUE
  /\ out' = [NoOut EXCEPT !.points = get_points(m_points)]
  /\ pre_points' = m_points
  /\ UNCHANGED m_points

\* the registries offered as the argument of check_for_conflicts
OtherRegistries == UNION {[D -> Hashes] : D \in SUBSET Heights}

CheckForConflicts ==
  /\ Idle
  /\ \E other \in OtherRegistries :
    /\ call' = [op |-> "check_for_conflicts", other |-> other]
    /\ ret' = check_for_conflicts(m_points, other)
    /\ out' = NoOut
    /\ pre_points' = m_points
    /\ UNCHANGED m_points

InitDefaultCheckpoints ==
  /\ Idle
  /\ \E nettype \in NetworkTypes :
    LET a == init_default_checkpoints(m_points, nettype)
    IN  /\ m_points' = a.points
        /\ pre_points' = m_points
        /\ call' = [op |-> "init_default_checkpoints", nettype |-> nettype]
        /\ ret' = a.ret
        /\ out' = NoOut

\* highest is the set of values get_max_height can return at line 283; the
\* call is not reached when the file does not exist, and prev_max_height is
\* then recorded as 0
LoadCheckpointsFromJson ==
  /\ Idle
  /\ \E highest \in {get_max_height(m_points)} :
    \E file \in Files :
    \E prev_max_height \in (IF file.exists THEN highest ELSE {0}) :
      LET a == load_checkpoints_from_json(m_points, file, prev_max_height)
      IN  /\ m_points' = a.points
          /\ pre_points' = m_points
          /\ call' = [op |-> "load_checkpoints_from_json", file |-> file,
                      prev_max_height |-> prev_max_height,
                      max_of_empty |-> (file.exists /\ DOMAIN m_points = {})]
          /\ ret' = a.ret
          /\ out' = NoOut

\* response is what the resolver would answer to the lookup
LoadCheckpointsFromDns ==
  /\ Idle
  /\ \E nettype \in NetworkTypes, response \in DnsResponses :
    LET a == load_checkpoints_from_dns(m_points, nettype)
    IN  /\ m_points' = a.points
        /\ pre_points' = m_points
        /\ call' = [op |-> "load_checkpoints_from_dns", nettype |-> nettype,
                    response |-> response]
        /\ ret' = a.ret
        /\ out' = NoOut

\* as LoadCheckpointsFromJson, followed by load_checkpoints_from_dns when
\* dns is set
LoadNewCheckpoints ==
  /\ Idle
  /\ \E highest \in {get_max_height(m_points)} :
    \E file \in ShortFiles, nettype \in NetworkTypes, dns \in BOOLEAN :
    \E prev_max_height \in (IF file.exists THEN highest ELSE {0}) :
      LET a == load_new_checkpoints(m_points, file, prev_max_height, nettype, dns)
      IN  /\ m_points' = a.points
          /\ pre_points' = m_points
          /\ call' = [op |-> "load_new_checkpoints", file |-> file,
                      nettype |-> nettype, dns |-> dns, ran |-> a.ran,
                      prev_max_height |-> prev_max_height,
                      max_of_empty |-> (file.exists /\ DOMAIN m_points = {})]
          /\ ret' = a.ret
          /\ out' = NoOut

Next ==
  \/ AddCheckpoint
  \/ IsInCheckpointZone
  \/ CheckBlock
  \/ CheckBlock2
  \/ IsAlternativeBlockAllowed
  \/ GetMaxHeight
  \/ GetPoints
  \/ CheckForConflicts
  \/ InitDefaultCheckpoints
  \/ LoadCheckpointsFromJson
  \/ LoadCheckpointsFromDns
  \/ LoadNewCheckpoints
  \/ Return

Spec == Init /\ [][Next]_vars

TypeOK == DOMAIN m_points \subseteq Nat

(* --------------------------- properties -------------------------------- *)
SetMax(S) == CHOOSE x \in S : \A y \in S : y <= x

\* the last call was add_checkpoint(h, H2) with a well-formed H2 at a height
\* that held a different hash H1
ConflictingAdd ==
  /\ call.op = "add_checkpoint"
  /\ call.height \in DOMAIN pre_points
  /\ hex_to_pod(call.hash_str).r
  /\ hex_to_pod(call.hash_str).h # pre_points[call.height]

\* C1: add_checkpoint(h, H2) at a height h that holds H1, with H2 well-formed
\* and different from H1, returns false and leaves the whole registry as it
\* was; in particular h still maps to H1.
C1_ConflictRejected ==
  ConflictingAdd =>
    /\ ret = FALSE
    /\ m_points = pre_points
    /\ call.height \in DOMAIN m_points
    /\ m_points[call.height] = pre_points[call.height]

\* a conflicting add_checkpoint on a registry that holds two checkpoints
C1_Witness ==
  /\ ConflictingAdd
  /\ Cardinality(DOMAIN pre_points) >= 2

\* C2: no step deletes a height of the registry or changes the hash stored at
\* a height: whatever the operation and whether it succeeds or fails, every
\* height present before the step is present after it with the same hash.
C2_AppendOnly ==
  [][\A h \in DOMAIN m_points :
       h \in DOMAIN m_points' /\ m_points'[h] = m_points[h]]_vars

\* load_new_checkpoints returned false on a registry that held a checkpoint,
\* after it had added a record of the file
C2_Witness ==
  /\ call.op = "load_new_checkpoints"
  /\ ret = FALSE
  /\ DOMAIN pre_points # {}
  /\ DOMAIN m_points # DOMAIN pre_points

\* the checkpoint heights at or below c
AtOrBelow(points, c) == {k \in DOMAIN points : k <= c}

\* the gate as the claim words it
GateAllows(points, c, b) ==
  /\ b # 0
  /\ \/ AtOrBelow(points, c) = {}
     \/ b > SetMax(AtOrBelow(points, c))

\* the registry {100: A, 200: B}
GateExample == (100 :> <<"4">>) @@ (200 :> <<"6">>)

\* C3: is_alternative_block_allowed(c, b) is true exactly when b is not 0 and
\* either no checkpoint height is at or below c or b is strictly greater than
\* the greatest checkpoint height at or below c; with checkpoints {100, 200}
\* the calls (150, 250), (50, 10), (150, 90) give true, true, false.
C3_GateExact ==
  /\ call.op = "is_alternative_block_allowed" =>
       ret = GateAllows(pre_points, call.blockchain_height, call.block_height)
  /\ Idle =>
       \A c \in QueryHeights, b \in QueryHeights :
         is_alternative_block_allowed(m_points, c, b) = GateAllows(m_points, c, b)
  /\ is_alternative_block_allowed(GateExample, 150, 250) = TRUE
  /\ is_alternative_block_allowed(GateExample, 50, 10) = TRUE
  /\ is_alternative_block_allowed(GateExample, 150, 90) = FALSE

\* the gate refused a candidate at exactly the height of the last checkpoint
\* passed, with a later checkpoint above the chain's height
C3_Witness ==
  /\ call.op = "is_alternative_block_allowed"
  /\ ret = FALSE
  /\ call.block_height # 0
  /\ call.block_height \in DOMAIN m_points
  /\ call.block_height = SetMax(AtOrBelow(m_points, call.blockchain_height))
  /\ \E k \in DOMAIN m_points : k > call.blockchain_height

\* C4: check_block(h, H) returns (true, false) when h is not a checkpoint
\* height, (true, true) when h is one and H is the stored hash, (false, true)
\* when h is one and H differs; the two-argument form returns the same passed
\* value.
C4_CheckBlock ==
  /\ call.op = "check_block" =>
       /\ call.height \notin DOMAIN m_points =>
            (ret = TRUE /\ out.is_a_checkpoint = FALSE)
       /\ (call.height \in DOMAIN m_points /\ m_points[call.height] = call.h) =>
            (ret = TRUE /\ out.is_a_checkpoint = TRUE)
       /\ (call.height \in DOMAIN m_points /\ m_points[call.height] # call.h) =>
            (ret = FALSE /\ out.is_a_checkpoint = TRUE)
  /\ call.op = "check_block_2" =>
       ret = (call.height \in DOMAIN m_points => m_points[call.height] = call.h)

\* the two-argument check_block failed a block at a checkpoint height
C4_Witness ==
  /\ call.op = "check_block_2"
  /\ call.height \in DOMAIN m_points
  /\ m_points[call.height] # call.h
  /\ ret = FALSE

\* C5: is_in_checkpoint_zone(h) is true exactly when the registry is not
\* empty and h is at or below its greatest height; it is false for every h on
\* the empty registry, and on a non-empty registry it is h <= the value
\* get_max_height returns.
C5_Zone ==
  /\ call.op = "is_in_checkpoint_zone" =>
       ret = (DOMAIN m_points # {} /\ call.height <= SetMax(DOMAIN m_points))
  /\ Idle =>
       \A h \in QueryHeights :
         /\ DOMAIN m_points = {} => ~is_in_checkpoint_zone(m_points, h)
         /\ DOMAIN m_points # {} =>
              \A highest \in get_max_height(m_points) :
                is_in_checkpoint_zone(m_points, h) = (h <= highest)

\* the zone was asked about the greatest height of a registry of several
\* checkpoints and answered true
C5_Witness ==
  /\ call.op = "is_in_checkpoint_zone"
  /\ Cardinality(DOMAIN m_points) >= 2
  /\ call.height = SetMax(DOMAIN m_points)
  /\ ret = TRUE

\* C6: check_for_conflicts(other) returns false exactly when some height
\* present in both registries maps to different hashes; heights present in
\* one registry only never make it fail.
C6_Conflicts ==
  call.op = "check_for_conflicts" =>
    ret = ~(\E h \in (DOMAIN m_points) \cap (DOMAIN call.other) :
              m_points[h] # call.other[h])

\* a failed comparison where the first height of other is not in this
\* registry and this registry has a height other has not
C6_Witness ==
  /\ call.op = "check_for_conflicts"
  /\ ret = FALSE
  /\ DOMAIN call.other # {}
  /\ Keys(call.other)[1] \notin DOMAIN m_points
  /\ (DOMAIN m_points) \ (DOMAIN call.other) # {}

\* C7: add_checkpoint is idempotent: a second add_checkpoint(h, H) after a
\* first one leaves the registry as the first call left it and succeeds when
\* the first call succeeded.
C7_Idempotent ==
  call.op = "add_checkpoint" =>
    /\ LET again == add_checkpoint(m_points, call.height, call.hash_str)
       IN  /\ again.points = m_points
           /\ ret = TRUE => again.ret = TRUE
    /\ (/\ call.height \in DOMAIN pre_points
        /\ hex_to_pod(call.hash_str).r
        /\ hex_to_pod(call.hash_str).h = pre_points[call.height]) =>
         (ret = TRUE /\ m_points = pre_points)

\* add_checkpoint was called with the height and hash the registry already
\* held, and succeeded
C7_Witness ==
  /\ call.op = "add_checkpoint"
  /\ call.height \in DOMAIN pre_points
  /\ hex_to_pod(call.hash_str).r
  /\ hex_to_pod(call.hash_str).h = pre_points[call.height]
  /\ ret = TRUE

\* C8: add_checkpoint with a hash string that does not decode returns false
\* and leaves the registry unchanged, whether or not the height is present.
C8_MalformedRejected ==
  (call.op = "add_checkpoint" /\ ~hex_to_pod(call.hash_str).r) =>
    (ret = FALSE /\ m_points = pre_points)

\* a malformed hash string was offered at a height the registry holds
C8_Witness ==
  /\ call.op = "add_checkpoint"
  /\ ~hex_to_pod(call.hash_str).r
  /\ call.height \in DOMAIN pre_points
  /\ ret = FALSE

\* the last call was load_checkpoints_from_json on a file that exists and
\* loads
JsonCall ==
  /\ call.op = "load_checkpoints_from_json"
  /\ call.file.exists
  /\ call.file.loads

\* the first well-formed record of lines above snapshot at the height of
\* record i, i itself if there is none before it
FirstAt(lines, snapshot, i) ==
  CHOOSE j \in 1..i :
    /\ lines[j].height = lines[i].height
    /\ j # i => hex_to_pod(lines[j].hash).r
    /\ \A k \in 1..(j - 1) :
         lines[k].height = lines[i].height => ~hex_to_pod(lines[k].hash).r

\* record i is above the snapshot, well-formed and does not conflict with
\* what the records before it stored
Accepted(lines, snapshot, i) ==
  /\ lines[i].height > snapshot
  /\ hex_to_pod(lines[i].hash).r
  /\ hex_to_pod(lines[FirstAt(lines, snapshot, i)].hash).h = hex_to_pod(lines[i].hash).h

\* record i is above the snapshot and add_checkpoint rejects it
Rejected(lines, snapshot, i) ==
  /\ lines[i].height > snapshot
  /\ ~Accepted(lines, snapshot, i)

\* the registry of greatest height 100 and the file of heights 50, 150, 200
MergeExampleRegistry == (100 :> [i \in 1..HashHexLen |-> "4"])

MergeExampleLines ==
  <<[height |-> 50, hash |-> [i \in 1..HashHexLen |-> "6"]],
    [height |-> 150, hash |-> [i \in 1..HashHexLen |-> "6"]],
    [height |-> 200, hash |-> [i \in 1..HashHexLen |-> "4"]]>>

\* C9: load_checkpoints_from_json on a non-empty registry compares every
\* record with the greatest height of the registry as it was before the first
\* record: a record at or below it is never added, a well-formed
\* non-conflicting record above it is added even when an earlier record has
\* raised the greatest height above it.  With greatest height 100 and file
\* heights 50, 150, 200, afterwards 50 is absent and 150 and 200 are present.
C9_SnapshotOnce ==
  /\ (JsonCall /\ DOMAIN pre_points # {}) =>
       LET snapshot == call.prev_max_height
           lines == call.file.hashlines
       IN  /\ snapshot \in DOMAIN pre_points
           /\ \A k \in DOMAIN pre_points : k <= snapshot
           /\ \A i \in 1..Len(lines) :
                /\ (lines[i].height <= snapshot /\ lines[i].height \notin DOMAIN pre_points)
                     => lines[i].height \notin DOMAIN m_points
                /\ Accepted(lines, snapshot, i) =>
                     /\ lines[i].height \in DOMAIN m_points
                     /\ m_points[lines[i].height] = hex_to_pod(lines[i].hash).h
  /\ get_max_height(MergeExampleRegistry) = {100}
  /\ DOMAIN json_hashlines(MergeExampleRegistry, MergeExampleLines, 100, 1).points
       = {100, 150, 200}

\* a file whose record below the snapshot was left out and whose two records
\* above the snapshot came in descending order and were both added
C9_Witness ==
  /\ JsonCall
  /\ DOMAIN pre_points # {}
  /\ LET snapshot == call.prev_max_height
         lines == call.file.hashlines
     IN  /\ \E k \in 1..Len(lines) :
              /\ lines[k].height <= snapshot
              /\ lines[k].height \notin DOMAIN m_points
         /\ \E i \in 1..Len(lines), j \in 1..Len(lines) :
              /\ i < j
              /\ lines[i].height > lines[j].height
              /\ lines[j].height > snapshot
              /\ lines[i].height \in DOMAIN m_points
              /\ lines[j].height \in DOMAIN m_points

\* C10: a record above the snapshot that add_checkpoint rejects does not stop
\* load_checkpoints_from_json: the call still returns true, and every later
\* record above the snapshot that is well-formed and non-conflicting is in the
\* registry afterwards.
C10_RejectedRecordSkipped ==
  JsonCall =>
    LET lines == call.file.hashlines
        snapshot == call.prev_max_height
    IN  \A i \in 1..Len(lines) :
          Rejected(lines, snapshot, i) =>
            /\ ret = TRUE
            /\ \A j \in (i + 1)..Len(lines) :
                 Accepted(lines, snapshot, j) =>
                   /\ lines[j].height \in DOMAIN m_points
                   /\ m_points[lines[j].height] = hex_to_pod(lines[j].hash).h

\* a file whose second record conflicts with the entry its first record
\* created and whose third record, at a new height, was added
C10_Witness ==
  /\ JsonCall
  /\ ret = TRUE
  /\ LET lines == call.file.hashlines
         snapshot == call.prev_max_height
     IN  /\ Len(lines) = 3
         /\ Accepted(lines, snapshot, 1)
         /\ hex_to_pod(lines[2].hash).r
         /\ Rejected(lines, snapshot, 2)
         /\ Accepted(lines, snapshot, 3)
         /\ lines[3].height \notin DOMAIN pre_points
         /\ lines[3].height # lines[1].height
         /\ lines[3].height \in DOMAIN m_points
\* the last call was load_new_checkpoints
LoadNewCall == call.op = "load_new_checkpoints"

\* what load_checkpoints_from_json alone gives on the registry and file of the
\* last call
JsonAlone == load_checkpoints_from_json(pre_points, call.file, call.prev_max_height)

\* C11: load_new_checkpoints always runs load_checkpoints_from_json; it runs
\* load_checkpoints_from_dns exactly when dns is set, also when the json load
\* returned false; it returns the conjunction of the results of the loads it
\* ran.
C11_LoadNewRunsBoth ==
  LoadNewCall =>
    LET j == JsonAlone
        d == load_checkpoints_from_dns(j.points, call.nettype)
    IN  /\ call.ran[1] = "json"
        /\ ("dns" \in {call.ran[i] : i \in 1..Len(call.ran)}) = call.dns
        /\ ret = (IF call.dns THEN j.ret /\ d.ret ELSE j.ret)

\* load_new_checkpoints with dns set ran the dns load after a json load that
\* returned false
C11_Witness ==
  /\ LoadNewCall
  /\ call.dns
  /\ call.file.exists
  /\ JsonAlone.ret = FALSE
  /\ call.ran = <<"json", "dns">>
  /\ ret = FALSE

\* C12: with dns unset load_new_checkpoints returns what
\* load_checkpoints_from_json alone returns and leaves the registry that load
\* leaves; when the file does not exist either, it returns true and leaves the
\* registry unchanged.
C12_RemoteOffNoOp ==
  (LoadNewCall /\ ~call.dns) =>
    /\ ret = JsonAlone.ret
    /\ m_points = JsonAlone.points
    /\ ~call.file.exists => (ret = TRUE /\ m_points = pre_points)

\* load_new_checkpoints with dns unset and no file, on a registry that holds
\* checkpoints
C12_Witness ==
  /\ LoadNewCall
  /\ ~call.dns
  /\ ~call.file.exists
  /\ DOMAIN pre_points # {}
  /\ ret = TRUE
\* the table init_default_checkpoints adds for a network type
TableOf(nettype) ==
  IF nettype = "TESTNET" THEN TestTable
  ELSE IF nettype = "STAGENET" THEN StageTable
  ELSE MainTable

TableHeights(nettype) ==
  {RowHeight(TableOf(nettype)[i]) : i \in 1..Len(TableOf(nettype))}

\* the registry holds every row of the table of nettype
HoldsTable(points, nettype) ==
  \A i \in 1..Len(TableOf(nettype)) :
    /\ RowHeight(TableOf(nettype)[i]) \in DOMAIN points
    /\ points[RowHeight(TableOf(nettype)[i])] = hex_to_pod(RowHash(TableOf(nettype)[i])).h

\* the last call was init_default_checkpoints
SeedCall == call.op = "init_default_checkpoints"

\* C13: init_default_checkpoints on an empty registry returns true and leaves
\* exactly the rows of the table of the network type: one checkpoint at
\* height 0 for TESTNET and for STAGENET, every height of the main table
\* otherwise, whose heights are strictly ascending.  Seeding the same network
\* type again returns true and leaves the registry unchanged.
C13_Seed ==
  /\ (SeedCall /\ DOMAIN pre_points = {}) =>
       /\ ret = TRUE
       /\ DOMAIN m_points = TableHeights(call.nettype)
       /\ HoldsTable(m_points, call.nettype)
       /\ call.nettype \in {"TESTNET", "STAGENET"} => DOMAIN m_points = {0}
       /\ LET again == init_default_checkpoints(m_points, call.nettype)
          IN  again.ret = TRUE /\ again.points = m_points
  /\ (/\ SeedCall
      /\ DOMAIN pre_points = TableHeights(call.nettype)
      /\ HoldsTable(pre_points, call.nettype)) =>
       (ret = TRUE /\ m_points = pre_points)
  /\ Idle =>
       \A i \in 1..(Len(MainTable) - 1) :
         RowHeight(MainTable[i]) < RowHeight(MainTable[i + 1])

\* the main table was seeded a second time
C13_Witness ==
  /\ SeedCall
  /\ call.nettype = "MAINNET"
  /\ DOMAIN pre_points = TableHeights("MAINNET")
  /\ Cardinality(DOMAIN pre_points) = Len(MainTable)
  /\ ret = TRUE
  /\ m_points = pre_points
\* C14: no operation of the registry evaluates get_max_height on an empty
\* registry: load_checkpoints_from_json and load_new_checkpoints, called with
\* a file that exists, check that the registry is not empty before they take
\* its greatest height.
C14_MaxHeightGuarded ==
  call.op \in {"load_checkpoints_from_json", "load_new_checkpoints"} =>
    ~call.max_of_empty
\* the last call was load_checkpoints_from_dns
DnsCall == call.op = "load_checkpoints_from_dns"

\* the height and hash string of a TXT record "<decimal height>:<hex hash>",
\* ok when the record has the colon, a height that reads and a hash that
\* decodes
ParsedRecord(record) ==
  LET pos == find_colon(record, 1)
      height == read_height(SubSeq(record, 1, pos - 1))
      hashStr == SubSeq(record, pos + 1, Len(record))
  IN  [ok |-> pos # 0 /\ height.r /\ hex_to_pod(hashStr).r,
       height |-> height.height,
       hash |-> hex_to_pod(hashStr).h]

\* C15: when the lookup succeeds, load_checkpoints_from_dns submits every
\* well-formed record to add_checkpoint: each well-formed record whose height
\* was absent from the registry is present afterwards, whatever malformed
\* records come before it.
C15_RemoteRecordsAdded ==
  (DnsCall /\ call.response.ok) =>
    \A i \in 1..Len(call.response.records) :
      LET rec == ParsedRecord(call.response.records[i])
      IN  (rec.ok /\ rec.height \notin DOMAIN pre_points) =>
            rec.height \in DOMAIN m_points

\* C16: when the lookup fails, load_checkpoints_from_dns returns false and
\* leaves the registry as it was.
C16_LookupFailureKeepsRegistry ==
  (DnsCall /\ ~call.response.ok) =>
    (ret = FALSE /\ m_points = pre_points)

\* the lookup failed on a registry that holds the seed and a checkpoint
\* merged above it
C16_Witness ==
  /\ DnsCall
  /\ ~call.response.ok
  /\ 0 \in DOMAIN pre_points
  /\ \E h \in DOMAIN pre_points : h > 0
  /\ ret = FALSE
  /\ m_points = pre_points
QueryOps ==
  {"is_in_checkpoint_zone", "check_block", "check_block_2",
   "is_alternative_block_allowed", "get_max_height", "get_points",
   "check_for_conflicts"}

C18_GateMonotone ==
  (m_points # pre_points) =>
    \A c \in QueryHeights, b \in QueryHeights :
      ~is_alternative_block_allowed(pre_points, c, b) =>
        ~is_alternative_block_allowed(m_points, c, b)

\* a checkpoint was added below the one that had made the gate refuse a
\* candidate, and the candidate is still refused
C18_Witness ==
  /\ call.op = "add_checkpoint"
  /\ m_points # pre_points
  /\ \E k \in DOMAIN pre_points :
       /\ call.height < k
       /\ k \in Heights
       /\ ~is_alternative_block_allowed(pre_points, k, k)
       /\ ~is_alternative_block_allowed(m_points, k, k)
       /\ is_alternative_block_allowed(m_points, call.height, k)

\* C19: with dns set load_new_checkpoints returns false whatever the json load
\* returned and whatever the network type, and leaves the registry the json
\* load alone leaves; load_checkpoints_from_dns returns false with the
\* registry unchanged whatever the lookup would answer.
C19_RemoteOnAlwaysFalse ==
  /\ (LoadNewCall /\ call.dns) =>
       (ret = FALSE /\ m_points = JsonAlone.points)
  /\ DnsCall => (ret = FALSE /\ m_points = pre_points)

\* load_new_checkpoints with dns set returned false although the json load
\* succeeded and added a record
C19_Witness ==
  /\ LoadNewCall
  /\ call.dns
  /\ call.file.exists
  /\ call.file.loads
  /\ JsonAlone.ret = TRUE
  /\ m_points # pre_points
  /\ ret = FALSE

====
